---- MODULE Spec2Model ----
(***************************************************************************)
(* Excitation generation and fermionic phases of arches' determinant       *)
(* module (determinant.cpp).  A determinant is a pair of spin determinants *)
(* (alpha = channel 0, beta = channel 1), each a bit vector over N_mos     *)
(* orbitals.  Every operation of the module is a pure function of its      *)
(* arguments; the state machine below is the caller: it holds a source     *)
(* determinant d, calls one operation on it and keeps what the call        *)
(* computed until it drops the result again.                               *)
(***************************************************************************)
EXTENDS Integers, Sequences, FiniteSets, TLC

\* ------------------------------------------------------------------ bounds
\* number of molecular orbitals of every determinant of the model
N_mos == 4
\* most orbitals a constraint names, hole-allow and particle-allow together
MaxAllow == 2
\* width of int and of size_t, scaled down from 32 and 64 bits so that a
\* loop counter that runs through the whole int range stays countable
IntBits == 4
SizeBits == 5

Orbs == 0 .. (N_mos - 1)
Spins == 0 .. 1

RECURSIVE Pow2(_)
Pow2(n) == IF n = 0 THEN 1 ELSE 2 * Pow2(n - 1)

\* SIZE_MAX + 1, INT_MAX + 1 and UINT_MAX + 1 at these widths
SizeRange == Pow2(SizeBits)
IntHalf == Pow2(IntBits - 1)
IntRange == Pow2(IntBits)

\* ------------------------------------------- determinant.h (bitset model)
\* spin_det_t: one bit per orbital
SpinDets == [Orbs -> BOOLEAN]

\* spin_det_t(N_mos): no orbital occupied
spin_det_empty == [i \in Orbs |-> FALSE]

\* spin_det_t(N_mos, max_orb, true): orbitals below max_orb occupied
spin_det_fill(max_orb) == [i \in Orbs |-> i < max_orb]

\* spin_det_t(N_mos, N_filled, orbs): the listed orbitals occupied
spin_det_orb_list(orbs) == [i \in Orbs |-> \E k \in 1 .. Len(orbs) : orbs[k] = i]

\* set(orb, val); an orb outside the N_mos bits leaves them as they are
set(s, i, val) == [j \in Orbs |-> IF j = i THEN val ELSE s[j]]

\* set(min_orb, max_orb, val): the orbitals min_orb .. max_orb
set_range(s, lo, hi, val) == [i \in Orbs |-> IF lo <= i /\ i <= hi THEN val ELSE s[i]]

\* operator~ (restricted to the N_mos orbitals), operator&, operator^
bit_flip(s) == [i \in Orbs |-> ~s[i]]
bit_and(s, t) == [i \in Orbs |-> s[i] /\ t[i]]
bit_xor(s, t) == [i \in Orbs |-> s[i] # t[i]]

\* count(): number of occupied orbitals
count(s) == Cardinality({i \in Orbs : s[i]})

\* to_constraint: the occupied orbitals in ascending order
RECURSIVE to_constraint_from(_, _)
to_constraint_from(s, i) ==
    IF i >= N_mos THEN <<>>
    ELSE (IF s[i] THEN <<i>> ELSE <<>>) \o to_constraint_from(s, i + 1)

to_constraint(s) == to_constraint_from(s, 0)

\* What a get/set/range operation of the bitset does with the orbital indices
\* it is handed: inside [0, N_mos) it works on the bits; outside, a checking
\* bitset reports InvalidOrbitalIndex, one without bounds checking accesses
\* storage outside the N_mos bits
BoundsChecks == {"checked", "unchecked"}
index_outcome(idxs, bc) ==
    IF idxs \subseteq Orbs THEN "ok"
    ELSE IF bc = "checked" THEN "InvalidOrbitalIndex" ELSE "corrupted"

\* det_t(alpha, beta)
det_t(a, b) == [c \in Spins |-> IF c = 0 THEN a ELSE b]

Dets == [Spins -> SpinDets]

\* ------------------------------------------------------------------ phases
compute_phase_single_excitation_closed(sd, h, p) ==
    LET i == IF h < p THEN h ELSE p
        j == IF h < p THEN p ELSE h
        hpmask == set_range(spin_det_empty, i, j, TRUE)
        parity == count(bit_and(hpmask, sd)) % 2
    IN  IF parity = 1 THEN -1 ELSE 1

compute_phase_single_excitation(sd, h, p) ==
    LET i == IF h < p THEN h ELSE p
        j == IF h < p THEN p ELSE h
        hpmask == set_range(spin_det_empty, i + 1, j, TRUE)
        parity == count(bit_and(hpmask, sd)) % 2
    IN  IF parity = 1 THEN -1 ELSE 1

compute_phase_double_excitation_one_flip(sd, h1, h2, p1, p2) ==
    LET phase0 == compute_phase_single_excitation(sd, h1, p1)
                    * compute_phase_single_excitation(sd, h2, p2)
    IN  IF h2 < p1 THEN phase0 * (-1) ELSE phase0

compute_phase_double_excitation(sd, h1, h2, p1, p2) ==
    LET phase0 == compute_phase_single_excitation(sd, h1, p1)
                    * compute_phase_single_excitation(sd, h2, p2)
        phase1 == IF h2 < p1 THEN phase0 * (-1) ELSE phase0
        phase2 == IF p2 < h1 THEN phase1 * (-1) ELSE phase1
    IN  phase2

\* ------------------------------------------------------------- excitations
exc_det_copy_paste(a, b) == det_t(bit_xor(a[0], b[0]), bit_xor(a[1], b[0]))

exc_det(a, b) == det_t(bit_xor(a[0], b[0]), bit_xor(a[1], b[1]))

apply_single_excitation_spin(s, h, p) ==
    LET s2 == s
        s3 == set(s2, h, FALSE)
    IN  set(s3, p, TRUE)

apply_single_excitation_no_clear(s, spin, h, p) ==
    [s EXCEPT ![spin] = set(s[spin], p, TRUE)]

apply_single_excitation(s, spin, h, p) ==
    LET s2 == s
        s3 == [s2 EXCEPT ![spin] = set(s2[spin], h, FALSE)]
    IN  [s3 EXCEPT ![spin] = set(s3[spin], p, TRUE)]

apply_double_excitation(s, spin_1, spin_2, h1, h2, p1, p2) ==
    LET a == [s EXCEPT ![spin_1] = set(s[spin_1], h1, FALSE)]
        b == [a EXCEPT ![spin_2] = set(a[spin_2], h2, FALSE)]
        c == [b EXCEPT ![spin_1] = set(b[spin_1], p1, TRUE)]
    IN  [c EXCEPT ![spin_2] = set(c[spin_2], p2, TRUE)]

\* the orbital indices each function hands to a bitset operation
compute_phase_single_excitation_indices(h, p) ==
    LET i == IF h < p THEN h ELSE p
        j == IF h < p THEN p ELSE h
    IN  {i + 1, j}
apply_single_excitation_indices(h, p) == {h, p}
apply_double_excitation_indices(h1, h2, p1, p2) == {h1, h2, p1, p2}

\* ------------------------------------------------- loops and their counters
\* A loop nest is modelled by the sequence of loop bodies it executed, at
\* every nesting level, in execution order: <<x>> for a body that pushed x
\* onto the result vector, <<>> for a body that pushed nothing itself.
Tick == << <<>> >>
Push(x) == << <<x>> >>
Ticks(n) == [k \in 1 .. n |-> <<>>]
\* the result vector: the pushed determinants, in order
Pushed(ev) ==
    LET sel == SelectSeq(ev, LAMBDA e : Len(e) = 1)
    IN  [k \in 1 .. Len(sel) |-> sel[k][1]]
\* the number of loop bodies executed
Iterations(ev) == Len(ev)

\* an int converted to size_t for a comparison with a size()
ToSize(i) == i % SizeRange
\* an int after an arithmetic result is stored back
IntWrap(i) == ((i + IntHalf) % IntRange) - IntHalf
\* the outcomes of signed overflow of an int loop counter: the counter wraps
\* to INT_MIN, or it lives in a register as wide as size_t and keeps counting
UBOutcomes == {"wrap", "widen"}
IntInc(i, ub) == IF ub = "wrap" THEN IntWrap(i + 1) ELSE (i + 1) % SizeRange

\* ----------------------------------------------------------------- singles
RECURSIVE singles_p_loop(_, _, _, _, _)
singles_p_loop(d, spin, i, p, k) ==
    IF k > Len(p) THEN <<>>
    ELSE Push(apply_single_excitation(d, spin, i, p[k]))
           \o singles_p_loop(d, spin, i, p, k + 1)

RECURSIVE singles_h_loop(_, _, _, _, _)
singles_h_loop(d, spin, h, p, k) ==
    IF k > Len(h) THEN <<>>
    ELSE Tick \o singles_p_loop(d, spin, h[k], p, 1)
              \o singles_h_loop(d, spin, h, p, k + 1)

RECURSIVE singles_h_loop_inner(_, _, _, _, _)
singles_h_loop_inner(d, spin, h, j, k) ==
    IF k > Len(h) THEN <<>>
    ELSE Push(apply_single_excitation(d, spin, h[k], j))
           \o singles_h_loop_inner(d, spin, h, j, k + 1)

RECURSIVE singles_p_loop_outer(_, _, _, _, _)
singles_p_loop_outer(d, spin, h, p, k) ==
    IF k > Len(p) THEN <<>>
    ELSE Tick \o singles_h_loop_inner(d, spin, h, p[k], 1)
              \o singles_p_loop_outer(d, spin, h, p, k + 1)

get_singles_by_exc_mask_p_outer(d, spin, h, p) == singles_p_loop_outer(d, spin, h, p, 1)

get_singles_by_exc_mask(d, spin, h, p) == singles_h_loop(d, spin, h, p, 1)

RECURSIVE spin_singles_p_loop(_, _, _, _)
spin_singles_p_loop(sd, i, p, k) ==
    IF k > Len(p) THEN <<>>
    ELSE Push(apply_single_excitation_spin(sd, i, p[k]))
           \o spin_singles_p_loop(sd, i, p, k + 1)

RECURSIVE spin_singles_h_loop(_, _, _, _)
spin_singles_h_loop(sd, h, p, k) ==
    IF k > Len(h) THEN <<>>
    ELSE Tick \o spin_singles_p_loop(sd, h[k], p, 1)
              \o spin_singles_h_loop(sd, h, p, k + 1)

get_spin_singles_by_exc_mask(sd, h, p) == spin_singles_h_loop(sd, h, p, 1)

\* ------------------------------------------------------- same-spin doubles
\* c = [d, spin, h, p, ub]; h1, h2, p1, p2 are the int loop counters
RECURSIVE ss_p2_loop(_, _, _, _, _)
ss_p2_loop(c, h1, h2, p1, p2) ==
    IF ToSize(p2) < Len(c.p)
    THEN Push(apply_double_excitation(c.d, c.spin, c.spin,
                                      c.h[ToSize(h1) + 1], c.h[ToSize(h2) + 1],
                                      c.p[ToSize(p1) + 1], c.p[ToSize(p2) + 1]))
           \o ss_p2_loop(c, h1, h2, p1, IntInc(p2, c.ub))
    ELSE <<>>

RECURSIVE ss_p1_loop(_, _, _, _)
ss_p1_loop(c, h1, h2, p1) ==
    IF ToSize(p1) < ToSize(Len(c.p) - 1)
    THEN Tick \o ss_p2_loop(c, h1, h2, p1, IntInc(p1, c.ub))
              \o ss_p1_loop(c, h1, h2, IntInc(p1, c.ub))
    ELSE <<>>

RECURSIVE ss_h2_loop(_, _, _)
ss_h2_loop(c, h1, h2) ==
    IF ToSize(h2) < Len(c.h)
    THEN Tick \o ss_p1_loop(c, h1, h2, 0)
              \o ss_h2_loop(c, h1, IntInc(h2, c.ub))
    ELSE <<>>

RECURSIVE ss_h1_loop(_, _)
ss_h1_loop(c, h1) ==
    IF ToSize(h1) < ToSize(Len(c.h) - 1)
    THEN Tick \o ss_h2_loop(c, h1, IntInc(h1, c.ub))
              \o ss_h1_loop(c, IntInc(h1, c.ub))
    ELSE <<>>

get_ss_doubles_by_exc_mask(d, spin, h, p, ub) ==
    ss_h1_loop([d |-> d, spin |-> spin, h |-> h, p |-> p, ub |-> ub], 0)

\* --------------------------------------------------- holes and particles
\* to_constraint(d[s]) and to_constraint(~d[s]) of the unconstrained generators
all_holes(d, s) == to_constraint(d[s])
all_parts(d, s) == to_constraint(bit_flip(d[s]))

\* constraint = <<hole-allow list, particle-allow list>>
hole_mask(constraint) == spin_det_orb_list(constraint[1])
part_mask(constraint) == spin_det_orb_list(constraint[2])
max_orb_mask(max_orb) == spin_det_fill(max_orb)

constrained_singles_holes(d, s, constraint, max_orb) ==
    to_constraint(bit_and(bit_and(bit_flip(d[s]), hole_mask(constraint)),
                          max_orb_mask(max_orb)))

constrained_singles_parts_flipped(d, s, constraint, max_orb) ==
    to_constraint(bit_and(bit_and(bit_flip(d[s]), part_mask(constraint)),
                          max_orb_mask(max_orb)))

constrained_singles_parts(d, s, constraint, max_orb) ==
    to_constraint(bit_and(bit_and(d[s], part_mask(constraint)), max_orb_mask(max_orb)))

constrained_os_doubles_holes(d, s, constraint, max_orb) ==
    to_constraint(bit_and(bit_and(bit_flip(d[s]), hole_mask(constraint)),
                          max_orb_mask(max_orb)))

constrained_os_doubles_parts(d, s, constraint, max_orb) ==
    to_constraint(bit_and(bit_and(d[s], part_mask(constraint)), max_orb_mask(max_orb)))

constrained_ss_doubles_holes(d, s, constraint, max_orb) ==
    to_constraint(bit_and(bit_and(d[s], hole_mask(constraint)), max_orb_mask(max_orb)))

constrained_ss_doubles_parts(d, s, constraint, max_orb) ==
    to_constraint(bit_and(bit_and(bit_flip(d[s]), part_mask(constraint)),
                          max_orb_mask(max_orb)))

\* -------------------------------------------------------------- generators
\* Each generator yields the loop bodies it executed; Pushed of them is the
\* vector it returns.  vector::insert of one result after another is \o.
get_constrained_singles(d, constraint, max_orb) ==
    LET alpha_singles ==
            get_singles_by_exc_mask(d, 0, constrained_singles_holes(d, 0, constraint, max_orb),
                                    constrained_singles_parts(d, 0, constraint, max_orb))
        beta_singles ==
            get_singles_by_exc_mask(d, 1, constrained_singles_holes(d, 1, constraint, max_orb),
                                    constrained_singles_parts(d, 1, constraint, max_orb))
    IN  alpha_singles \o beta_singles

get_all_singles(d) ==
    LET alpha_singles == get_singles_by_exc_mask(d, 0, all_holes(d, 0), all_parts(d, 0))
        beta_singles == get_singles_by_exc_mask(d, 1, all_holes(d, 1), all_parts(d, 1))
    IN  alpha_singles \o beta_singles

\* for (a : alpha_singles) for (b : beta_singles) push det_t(a, b)
RECURSIVE os_b_loop(_, _, _)
os_b_loop(a, beta_singles, k) ==
    IF k > Len(beta_singles) THEN <<>>
    ELSE Push(det_t(a, beta_singles[k])) \o os_b_loop(a, beta_singles, k + 1)

RECURSIVE os_a_loop(_, _, _)
os_a_loop(alpha_singles, beta_singles, k) ==
    IF k > Len(alpha_singles) THEN <<>>
    ELSE Tick \o os_b_loop(alpha_singles[k], beta_singles, 1)
              \o os_a_loop(alpha_singles, beta_singles, k + 1)

RECURSIVE os_a_loop_inner(_, _, _)
os_a_loop_inner(alpha_singles, b, k) ==
    IF k > Len(alpha_singles) THEN <<>>
    ELSE Push(det_t(alpha_singles[k], b)) \o os_a_loop_inner(alpha_singles, b, k + 1)

RECURSIVE os_b_loop_outer(_, _, _)
os_b_loop_outer(alpha_singles, beta_singles, k) ==
    IF k > Len(beta_singles) THEN <<>>
    ELSE Tick \o os_a_loop_inner(alpha_singles, beta_singles[k], 1)
              \o os_b_loop_outer(alpha_singles, beta_singles, k + 1)

\* the bodies of the two spin-singles calls pushed onto local vectors only
get_os_doubles_beta_outer(d) ==
    LET alpha_singles == get_spin_singles_by_exc_mask(d[0], all_holes(d, 0), all_parts(d, 0))
        beta_singles == get_spin_singles_by_exc_mask(d[1], all_holes(d, 1), all_parts(d, 1))
    IN  Ticks(Iterations(alpha_singles)) \o Ticks(Iterations(beta_singles))
          \o os_b_loop_outer(Pushed(alpha_singles), Pushed(beta_singles), 1)

get_os_doubles(d) ==
    LET alpha_singles == get_spin_singles_by_exc_mask(d[0], all_holes(d, 0), all_parts(d, 0))
        beta_singles == get_spin_singles_by_exc_mask(d[1], all_holes(d, 1), all_parts(d, 1))
    IN  Ticks(Iterations(alpha_singles)) \o Ticks(Iterations(beta_singles))
          \o os_a_loop(Pushed(alpha_singles), Pushed(beta_singles), 1)

get_constrained_os_doubles(d, constraint, max_orb) ==
    LET alpha_singles ==
            get_spin_singles_by_exc_mask(d[0],
                                         constrained_os_doubles_holes(d, 0, constraint, max_orb),
                                         constrained_os_doubles_parts(d, 0, constraint, max_orb))
        beta_singles ==
            get_spin_singles_by_exc_mask(d[1],
                                         constrained_os_doubles_holes(d, 1, constraint, max_orb),
                                         constrained_os_doubles_parts(d, 1, constraint, max_orb))
    IN  Ticks(Iterations(alpha_singles)) \o Ticks(Iterations(beta_singles))
          \o os_a_loop(Pushed(alpha_singles), Pushed(beta_singles), 1)

get_ss_doubles_copy_paste(d, ub) ==
    LET alpha_ss_doubles ==
            get_ss_doubles_by_exc_mask(d, 0, all_holes(d, 0), all_parts(d, 0), ub)
        beta_ss_doubles ==
            get_ss_doubles_by_exc_mask(d, 1, all_holes(d, 0), all_parts(d, 0), ub)
    IN  alpha_ss_doubles \o beta_ss_doubles

get_ss_doubles(d, ub) ==
    LET alpha_ss_doubles ==
            get_ss_doubles_by_exc_mask(d, 0, all_holes(d, 0), all_parts(d, 0), ub)
        beta_ss_doubles ==
            get_ss_doubles_by_exc_mask(d, 1, all_holes(d, 1), all_parts(d, 1), ub)
    IN  alpha_ss_doubles \o beta_ss_doubles

get_constrained_ss_doubles(d, constraint, max_orb, ub) ==
    LET alpha_ss_doubles ==
            get_ss_doubles_by_exc_mask(d, 0,
                                       constrained_ss_doubles_holes(d, 0, constraint, max_orb),
                                       constrained_ss_doubles_parts(d, 0, constraint, max_orb), ub)
        beta_ss_doubles ==
            get_ss_doubles_by_exc_mask(d, 1,
                                       constrained_ss_doubles_holes(d, 1, constraint, max_orb),
                                       constrained_ss_doubles_parts(d, 1, constraint, max_orb), ub)
    IN  alpha_ss_doubles \o beta_ss_doubles

get_all_connected_dets_os_first(d, ub) ==
    LET singles == get_all_singles(d)
        ss_doubles == get_ss_doubles(d, ub)
        os_doubles == get_os_doubles(d)
    IN  singles \o os_doubles \o ss_doubles

get_all_connected_dets(d, ub) ==
    LET singles == get_all_singles(d)
        ss_doubles == get_ss_doubles(d, ub)
        os_doubles == get_os_doubles(d)
    IN  singles \o ss_doubles \o os_doubles

\* ------------------------------------------------------------ state machine
VARIABLES
    d,      \* the caller's source determinant
    pc,     \* "idle", or the operation whose result the caller holds
    arg,    \* the arguments of that call
    holes,  \* per channel, the hole list the call resolved
    parts,  \* per channel, the particle list the call resolved
    res,    \* the determinants the call returned
    phase,  \* the phase the call returned
    iters,  \* the number of loop bodies the call executed
    outcome \* "ok", the error the call reported, or "corrupted"

vars == <<d, pc, arg, holes, parts, res, phase, iters, outcome>>

NoLists == [s \in Spins |-> <<>>]
NoArg == [spin |-> 0, h1 |-> 0, h2 |-> 0, p1 |-> 0, p2 |-> 0,
          constraint |-> <<<<>>, <<>>>>, max_orb |-> 0, ub |-> "none"]

\* allow lists: ascending lists of distinct orbitals
AllowLists == {to_constraint(s) : s \in {t \in SpinDets : count(t) <= MaxAllow}}
Constraints == {c \in AllowLists \X AllowLists : Len(c[1]) + Len(c[2]) <= MaxAllow}
Cutoffs == 0 .. N_mos

Idle ==
    /\ pc = "idle"
    /\ arg = NoArg
    /\ holes = NoLists
    /\ parts = NoLists
    /\ res = <<>>
    /\ phase = 0
    /\ iters = 0
    /\ outcome = "ok"

Init == d \in Dets /\ Idle

\* phases are taken on one spin determinant: the alpha channel of d
InitPhase == d \in {det_t(a, spin_det_empty) : a \in SpinDets} /\ Idle

\* alpha-only source determinants, as ExampleDet of the constrained scenario
InitConstrained == d \in {det_t(a, spin_det_empty) : a \in SpinDets} /\ Idle

\* alpha-only source determinants for the calls with arbitrary indices
InitIndex == d \in {det_t(a, spin_det_empty) : a \in SpinDets} /\ Idle

Generated(op, a, hl, pl, r) ==
    LET ev == r
    IN  /\ pc' = op
        /\ arg' = a
        /\ holes' = hl
        /\ parts' = pl
        /\ res' = Pushed(ev)
        /\ iters' = Iterations(ev)
        /\ UNCHANGED <<d, phase, outcome>>

GetAllSingles ==
    /\ pc = "idle"
    /\ Generated("get_all_singles", NoArg,
                 [s \in Spins |-> all_holes(d, s)], [s \in Spins |-> all_parts(d, s)],
                 get_all_singles(d))

GetSSDoubles ==
    /\ pc = "idle"
    /\ \E ub \in UBOutcomes :
         Generated("get_ss_doubles", [NoArg EXCEPT !.ub = ub],
                   [s \in Spins |-> all_holes(d, s)], [s \in Spins |-> all_parts(d, s)],
                   get_ss_doubles(d, ub))

GetOSDoubles ==
    /\ pc = "idle"
    /\ Generated("get_os_doubles", NoArg,
                 [s \in Spins |-> all_holes(d, s)], [s \in Spins |-> all_parts(d, s)],
                 get_os_doubles(d))

GetAllConnectedDets ==
    /\ pc = "idle"
    /\ \E ub \in UBOutcomes :
         Generated("get_all_connected_dets", [NoArg EXCEPT !.ub = ub],
                   [s \in Spins |-> all_holes(d, s)], [s \in Spins |-> all_parts(d, s)],
                   get_all_connected_dets(d, ub))

GetConstrainedSingles ==
    /\ pc = "idle"
    /\ \E c \in Constraints, m \in Cutoffs :
         Generated("get_constrained_singles",
                   [NoArg EXCEPT !.constraint = c, !.max_orb = m],
                   [s \in Spins |-> constrained_singles_holes(d, s, c, m)],
                   [s \in Spins |-> constrained_singles_parts(d, s, c, m)],
                   get_constrained_singles(d, c, m))

GetConstrainedOSDoubles ==
    /\ pc = "idle"
    /\ \E c \in Constraints, m \in Cutoffs :
         Generated("get_constrained_os_doubles",
                   [NoArg EXCEPT !.constraint = c, !.max_orb = m],
                   [s \in Spins |-> constrained_os_doubles_holes(d, s, c, m)],
                   [s \in Spins |-> constrained_os_doubles_parts(d, s, c, m)],
                   get_constrained_os_doubles(d, c, m))

GetConstrainedSSDoubles ==
    /\ pc = "idle"
    /\ \E c \in Constraints, m \in Cutoffs, ub \in UBOutcomes :
         Generated("get_constrained_ss_doubles",
                   [NoArg EXCEPT !.constraint = c, !.max_orb = m, !.ub = ub],
                   [s \in Spins |-> constrained_ss_doubles_holes(d, s, c, m)],
                   [s \in Spins |-> constrained_ss_doubles_parts(d, s, c, m)],
                   get_constrained_ss_doubles(d, c, m, ub))

ApplySingleExcitation ==
    /\ pc = "idle"
    /\ \E spin \in Spins, h \in Orbs, p \in Orbs :
         /\ pc' = "apply_single_excitation"
         /\ arg' = [NoArg EXCEPT !.spin = spin, !.h1 = h, !.p1 = p]
         /\ res' = <<apply_single_excitation(d, spin, h, p)>>
    /\ UNCHANGED <<d, holes, parts, phase, iters, outcome>>

\* exc_det of the source determinant and the excited one just returned
ExcDet ==
    /\ pc = "apply_single_excitation"
    /\ pc' = "exc_det"
    /\ res' = <<exc_det(d, res[1])>>
    /\ UNCHANGED <<d, arg, holes, parts, phase, iters, outcome>>

PhaseSingleExcitation ==
    /\ pc = "idle"
    /\ \E spin \in Spins, h \in Orbs, p \in Orbs :
         /\ pc' = "compute_phase_single_excitation"
         /\ arg' = [NoArg EXCEPT !.spin = spin, !.h1 = h, !.p1 = p]
         /\ phase' = compute_phase_single_excitation(d[spin], h, p)
    /\ UNCHANGED <<d, holes, parts, res, iters, outcome>>

PhaseDoubleExcitation ==
    /\ pc = "idle"
    /\ \E spin \in Spins, h1 \in Orbs, h2 \in Orbs, p1 \in Orbs, p2 \in Orbs :
         /\ pc' = "compute_phase_double_excitation"
         /\ arg' = [NoArg EXCEPT !.spin = spin, !.h1 = h1, !.h2 = h2, !.p1 = p1, !.p2 = p2]
         /\ phase' = compute_phase_double_excitation(d[spin], h1, h2, p1, p2)
    /\ UNCHANGED <<d, holes, parts, res, iters, outcome>>

\* idx_t is signed: a caller can hand any index, here one below and one
\* above the orbitals as well
OrbArgs == -1 .. N_mos

ApplySingleExcitationAnyIndex ==
    /\ pc = "idle"
    /\ \E spin \in Spins, h \in OrbArgs, p \in OrbArgs, bc \in BoundsChecks :
         LET o == index_outcome(apply_single_excitation_indices(h, p), bc)
         IN  /\ pc' = "apply_single_excitation"
             /\ arg' = [NoArg EXCEPT !.spin = spin, !.h1 = h, !.p1 = p]
             /\ outcome' = o
             /\ res' = IF o = "InvalidOrbitalIndex" THEN <<>>
                       ELSE <<apply_single_excitation(d, spin, h, p)>>
    /\ UNCHANGED <<d, holes, parts, phase, iters>>

\* both excitations in one channel, as get_ss_doubles_by_exc_mask calls it
ApplyDoubleExcitationAnyIndex ==
    /\ pc = "idle"
    /\ \E spin \in Spins, h1 \in OrbArgs, h2 \in OrbArgs, p1 \in OrbArgs, p2 \in OrbArgs,
          bc \in BoundsChecks :
         LET o == index_outcome(apply_double_excitation_indices(h1, h2, p1, p2), bc)
         IN  /\ pc' = "apply_double_excitation"
             /\ arg' = [NoArg EXCEPT !.spin = spin, !.h1 = h1, !.h2 = h2,
                                     !.p1 = p1, !.p2 = p2]
             /\ outcome' = o
             /\ res' = IF o = "InvalidOrbitalIndex" THEN <<>>
                       ELSE <<apply_double_excitation(d, spin, spin, h1, h2, p1, p2)>>
    /\ UNCHANGED <<d, holes, parts, phase, iters>>

PhaseSingleExcitationAnyIndex ==
    /\ pc = "idle"
    /\ \E spin \in Spins, h \in OrbArgs, p \in OrbArgs, bc \in BoundsChecks :
         LET o == index_outcome(compute_phase_single_excitation_indices(h, p), bc)
         IN  /\ pc' = "compute_phase_single_excitation"
             /\ arg' = [NoArg EXCEPT !.spin = spin, !.h1 = h, !.p1 = p]
             /\ outcome' = o
             /\ phase' = IF o = "InvalidOrbitalIndex" THEN 0
                         ELSE compute_phase_single_excitation(d[spin], h, p)
    /\ UNCHANGED <<d, holes, parts, res, iters>>

\* the caller drops what the last call returned
Return ==
    /\ pc # "idle"
    /\ pc' = "idle"
    /\ arg' = NoArg
    /\ holes' = NoLists
    /\ parts' = NoLists
    /\ res' = <<>>
    /\ phase' = 0
    /\ iters' = 0
    /\ outcome' = "ok"
    /\ UNCHANGED d

Next ==
    \/ GetAllSingles
    \/ GetSSDoubles
    \/ GetOSDoubles
    \/ GetAllConnectedDets
    \/ ApplySingleExcitation
    \/ ExcDet
    \/ Return

NextPhase ==
    \/ PhaseSingleExcitation
    \/ PhaseDoubleExcitation
    \/ Return

NextConstrained ==
    \/ GetConstrainedSingles
    \/ GetConstrainedOSDoubles
    \/ GetConstrainedSSDoubles
    \/ Return

NextIndex ==
    \/ ApplySingleExcitationAnyIndex
    \/ ApplyDoubleExcitationAnyIndex
    \/ PhaseSingleExcitationAnyIndex
    \/ Return

Spec == Init /\ [][Next]_vars
SpecPhase == InitPhase /\ [][NextPhase]_vars
SpecConstrained == InitConstrained /\ [][NextConstrained]_vars
SpecIndex == InitIndex /\ [][NextIndex]_vars

TypeOK ==
    /\ d \in Dets
    /\ pc \in {"idle", "get_all_singles", "get_ss_doubles", "get_os_doubles",
               "get_all_connected_dets", "get_constrained_singles",
               "get_constrained_os_doubles", "get_constrained_ss_doubles",
               "apply_single_excitation", "apply_double_excitation", "exc_det",
               "compute_phase_single_excitation", "compute_phase_double_excitation"}
    /\ \A k \in 1 .. Len(res) : res[k] \in Dets
    /\ phase \in {-1, 0, 1}
    /\ iters \in Nat
    /\ outcome \in {"ok", "InvalidOrbitalIndex", "corrupted"}

\* ------------------------------------------------------ reference notions
\* stated over sets of orbitals, independently of the loops above
Occ(sd) == {i \in Orbs : sd[i]}
Virt(sd) == {i \in Orbs : ~sd[i]}
SeqSet(q) == {q[k] : k \in 1 .. Len(q)}
\* the n-th smallest element of a set of orbitals, n = 1, 2, ...
Nth(S, n) == CHOOSE x \in S : Cardinality({y \in S : y < x}) = n - 1
Choose2(n) == (n * (n - 1)) \div 2
\* sd with h cleared and p set
ExcitedSpin(sd, h, p) == [i \in Orbs |-> IF i = p THEN TRUE ELSE IF i = h THEN FALSE ELSE sd[i]]
Excited(x, s, h, p) == [c \in Spins |-> IF c = s THEN ExcitedSpin(x[c], h, p) ELSE x[c]]
\* the k-th single excitation of sd, holes ascending outside, particles inside
NthSingle(sd, k) ==
    LET nv == Cardinality(Virt(sd))
    IN  ExcitedSpin(sd, Nth(Occ(sd), ((k - 1) \div nv) + 1), Nth(Virt(sd), ((k - 1) % nv) + 1))
SinglesCount(sd) == Cardinality(Occ(sd)) * Cardinality(Virt(sd))
popcount(x) == Cardinality(Occ(x[0])) + Cardinality(Occ(x[1]))
\* -1 for an odd number of occupied orbitals in (min(h,p), max(h,p)], else +1
PhaseByCount(sd, h, p) ==
    LET i == IF h < p THEN h ELSE p
        j == IF h < p THEN p ELSE h
        n == Cardinality({k \in Occ(sd) : i < k /\ k <= j})
    IN  IF n % 2 = 1 THEN -1 ELSE 1
Sign(b) == IF b THEN -1 ELSE 1

ConstrainedOps ==
    {"get_constrained_singles", "get_constrained_os_doubles", "get_constrained_ss_doubles"}
GeneratorOps ==
    {"get_all_singles", "get_ss_doubles", "get_os_doubles", "get_all_connected_dets"}
ExampleDet == det_t(spin_det_orb_list(<<0, 1>>), spin_det_empty)

\* ------------------------------------------------------------------ claims
\* C1: every constrained generator resolves, per spin channel, holes =
\* occupied AND hole-allow AND below max_orb, and particles = unoccupied AND
\* particle-allow AND below max_orb; alpha {0,1}, beta empty, H = {1},
\* P = {3} yields exactly the single excitation (1->3).
C1_ConstrainedMasks ==
    pc \in ConstrainedOps =>
        /\ \A s \in Spins :
             /\ SeqSet(holes[s]) = {i \in Occ(d[s]) :
                                      i \in SeqSet(arg.constraint[1]) /\ i < arg.max_orb}
             /\ SeqSet(parts[s]) = {i \in Virt(d[s]) :
                                      i \in SeqSet(arg.constraint[2]) /\ i < arg.max_orb}
        /\ (/\ pc = "get_constrained_singles"
            /\ d = ExampleDet
            /\ arg.constraint = <<<<1>>, <<3>>>>
            /\ arg.max_orb = N_mos) => res = <<Excited(d, 0, 1, 3)>>

\* C2: get_all_singles(d) is the list of d with h cleared and p set, holes h
\* ascending in the outer loop, particles p ascending in the inner loop, all
\* alpha results before all beta results; its length is
\* occ_alpha*virt_alpha + occ_beta*virt_beta.
C2_AllSingles ==
    pc = "get_all_singles" =>
        LET na == SinglesCount(d[0])
            nb == SinglesCount(d[1])
        IN  /\ Len(res) = na + nb
            /\ \A k \in 1 .. na : res[k] = det_t(NthSingle(d[0], k), d[1])
            /\ \A k \in 1 .. nb : res[na + k] = det_t(d[0], NthSingle(d[1], k))

C2_Witness ==
    /\ pc = "get_all_singles"
    /\ Cardinality(Occ(d[0])) = 2
    /\ Cardinality(Occ(d[1])) = 1
    /\ Len(res) = 2 * (N_mos - 2) + (N_mos - 1)

\* C3: get_ss_doubles(d) returns C(occ_alpha,2)*C(virt_alpha,2) +
\* C(occ_beta,2)*C(virt_beta,2) determinants; a channel with fewer than two
\* occupied or fewer than two unoccupied orbitals contributes none.
C3_SSDoublesCount ==
    pc = "get_ss_doubles" =>
        Len(res) = Choose2(Cardinality(Occ(d[0]))) * Choose2(Cardinality(Virt(d[0])))
                     + Choose2(Cardinality(Occ(d[1]))) * Choose2(Cardinality(Virt(d[1])))

C3_Witness ==
    /\ pc = "get_ss_doubles"
    /\ Cardinality(Occ(d[0])) = 2
    /\ Cardinality(Occ(d[1])) = 0
    /\ Len(res) = Choose2(N_mos - 2)

\* C4: every generation call executes a number of loop bodies bounded by a
\* polynomial in the hole and particle counts of the two channels, also
\* when a hole or particle list has fewer than two entries.
IterBound ==
    LET nh(s) == Len(holes[s])
        np(s) == Len(parts[s])
        B(s) == 2 * (nh(s) + nh(s) * np(s))
                  + nh(s) + nh(s) * nh(s) * (1 + np(s) + np(s) * np(s))
        na == nh(0) * np(0)
        nb == nh(1) * np(1)
    IN  B(0) + B(1) + na + na * nb

C4_PolynomialWork == pc \in GeneratorOps \cup ConstrainedOps => iters <= IterBound

\* C5: the phase of a single excitation (h, p) is -1 when the number of
\* orbitals occupied before the excitation in (min(h,p), max(h,p)] is odd
\* and +1 when it is even, for h < p and for h > p.
C5_SinglePhase ==
    pc = "compute_phase_single_excitation" =>
        phase = PhaseByCount(d[arg.spin], arg.h1, arg.p1)

C5_Witness ==
    /\ pc = "compute_phase_single_excitation"
    /\ arg.h1 > arg.p1 + 1
    /\ d[arg.spin][arg.h1]
    /\ ~d[arg.spin][arg.p1]
    /\ phase = -1

\* C6: the phase of a same-spin double excitation (h1,h2,p1,p2) is
\* phase(h1,p1)*phase(h2,p2) on the original determinant, times -1 if
\* h2 < p1, times -1 again if p2 < h1; it is +1 or -1.
C6_DoublePhase ==
    pc = "compute_phase_double_excitation" =>
        /\ phase = PhaseByCount(d[arg.spin], arg.h1, arg.p1)
                     * PhaseByCount(d[arg.spin], arg.h2, arg.p2)
                     * Sign(arg.h2 < arg.p1) * Sign(arg.p2 < arg.h1)
        /\ phase \in {-1, 1}

C6_Witness ==
    /\ pc = "compute_phase_double_excitation"
    /\ arg.h2 < arg.p1
    /\ arg.p2 < arg.h1
    /\ {arg.h1, arg.h2} \subseteq Occ(d[arg.spin])
    /\ {arg.p1, arg.p2} \subseteq Virt(d[arg.spin])
    /\ arg.h1 # arg.h2
    /\ arg.p1 # arg.p2
    /\ phase = -1

\* C7: the hole list and the particle list a constrained generator resolves
\* for a spin channel have no orbital in common.
C7_Disjoint ==
    pc \in ConstrainedOps =>
        \A s \in Spins : SeqSet(holes[s]) \cap SeqSet(parts[s]) = {}

C7_Witness ==
    /\ pc = "get_constrained_singles"
    /\ arg.max_orb < N_mos
    /\ holes[0] # <<>>
    /\ parts[0] # <<>>

\* C8: get_os_doubles(d) is det(a, b) for a over the alpha singles of d
\* (outer loop) and b over the beta singles of d (inner loop), both in
\* singles order; its length is occ_alpha*virt_alpha*occ_beta*virt_beta.
C8_OSDoubles ==
    pc = "get_os_doubles" =>
        LET na == SinglesCount(d[0])
            nb == SinglesCount(d[1])
        IN  /\ Len(res) = na * nb
            /\ \A k \in 1 .. (na * nb) :
                 res[k] = det_t(NthSingle(d[0], ((k - 1) \div nb) + 1),
                                NthSingle(d[1], ((k - 1) % nb) + 1))

C8_Witness ==
    /\ pc = "get_os_doubles"
    /\ Cardinality(Occ(d[0])) = 2
    /\ Cardinality(Occ(d[1])) = 1
    /\ Len(res) = 2 * (N_mos - 2) * (N_mos - 1)

\* C9: apply_single_excitation with h occupied and p unoccupied in d
\* returns a determinant with the popcount of d and leaves d unchanged.
C9_ElectronCount ==
    [][(/\ pc' = "apply_single_excitation"
        /\ d[arg'.spin][arg'.h1]
        /\ ~d[arg'.spin][arg'.p1])
         => (d' = d /\ popcount(res'[1]) = popcount(d))]_vars

C9_Witness ==
    /\ pc = "apply_single_excitation"
    /\ d[arg.spin][arg.h1]
    /\ ~d[arg.spin][arg.p1]
    /\ res[1] # d

\* C10: exc_det(d, apply_single_excitation(d, s, h, p)) with h occupied and
\* p unoccupied has exactly two set bits, at h and p of channel s, and none
\* in the other channel.
C10_ExcDetRoundTrip ==
    (/\ pc = "exc_det"
     /\ d[arg.spin][arg.h1]
     /\ ~d[arg.spin][arg.p1])
      => /\ Occ(res[1][arg.spin]) = {arg.h1, arg.p1}
         /\ popcount(res[1]) = 2
         /\ Occ(res[1][1 - arg.spin]) = {}

C10_Witness ==
    /\ pc = "exc_det"
    /\ arg.spin = 1
    /\ d[1][arg.h1]
    /\ ~d[1][arg.p1]
    /\ Occ(d[0]) # {}
    /\ popcount(res[1]) = 2

\* C11: get_all_connected_dets(d) is get_all_singles(d), then
\* get_ss_doubles(d), then get_os_doubles(d), concatenated in that order;
\* its length is the sum of the three lengths.
C11_AllConnected ==
    pc = "get_all_connected_dets" =>
        LET singles == Pushed(get_all_singles(d))
            ss_doubles == Pushed(get_ss_doubles(d, arg.ub))
            os_doubles == Pushed(get_os_doubles(d))
        IN  /\ res = singles \o ss_doubles \o os_doubles
            /\ Len(res) = Len(singles) + Len(ss_doubles) + Len(os_doubles)
            /\ Len(res) = SinglesCount(d[0]) + SinglesCount(d[1])
                            + Choose2(Cardinality(Occ(d[0]))) * Choose2(Cardinality(Virt(d[0])))
                            + Choose2(Cardinality(Occ(d[1]))) * Choose2(Cardinality(Virt(d[1])))
                            + SinglesCount(d[0]) * SinglesCount(d[1])

C11_Witness ==
    /\ pc = "get_all_connected_dets"
    /\ Cardinality(Occ(d[0])) = 2
    /\ Cardinality(Occ(d[1])) = 1
    /\ Len(res) = (2 * (N_mos - 2) + (N_mos - 1)) + Choose2(N_mos - 2)
                    + 2 * (N_mos - 2) * (N_mos - 1)

\* C13: every determinant get_constrained_singles returns is a single
\* excitation of d: it differs from d in exactly two orbitals of one spin
\* channel and has d's electron count in each channel; d itself is never
\* returned.
C13_GenuineSingles ==
    pc = "get_constrained_singles" =>
        \A k \in 1 .. Len(res) :
            /\ res[k] # d
            /\ \E s \in Spins :
                 /\ Cardinality(Occ(exc_det(d, res[k])[s])) = 2
                 /\ Occ(exc_det(d, res[k])[1 - s]) = {}
            /\ \A s \in Spins : Cardinality(Occ(res[k][s])) = Cardinality(Occ(d[s]))

\* C12: a hole or particle index outside [0, N_mos) handed to
\* apply_single_excitation, apply_double_excitation or a phase computation
\* makes the call report InvalidOrbitalIndex and return no determinant and
\* no phase.
SuppliedIndices ==
    IF pc = "apply_double_excitation" THEN {arg.h1, arg.h2, arg.p1, arg.p2}
    ELSE {arg.h1, arg.p1}

C12_InvalidIndexReported ==
    (/\ pc \in {"apply_single_excitation", "apply_double_excitation",
                "compute_phase_single_excitation"}
     /\ ~(SuppliedIndices \subseteq Orbs))
      => /\ outcome = "InvalidOrbitalIndex"
         /\ res = <<>>
         /\ phase = 0
====
